---- MODULE Spec2Model ----
(***************************************************************************)
(* mcp-mgr-ts: the connection lifecycle (ConnectionManager), the schema    *)
(* cache (SchemaManager), the tool invoker (ToolInvoker) and the parts of  *)
(* the facade (McpManager) that compose them.                              *)
(*                                                                         *)
(* The runtime is single-threaded and cooperative: an async function runs  *)
(* without interruption from one await to the next.  Every action below is *)
(* one such uninterrupted block of one call ("task"); tasks interleave     *)
(* only at the awaits (handshake, transport close, remote call, registry   *)
(* persist).  The transport and the protocol client are external: what     *)
(* they answer is a nondeterministic choice.                               *)
(***************************************************************************)
EXTENDS Naturals, Sequences, FiniteSets

\* ------------------------------------------------------------------ bounds

\* calls (tasks) issued in one behaviour, at most
MaxTasks == 5

\* calls issued in one behaviour of the lifecycle specification
MaxLifecycleCalls == 3

\* calls issued in one behaviour of the schema-cache specification
MaxSchemaCalls == 5

\* calls issued in one behaviour of the tool-call specification
MaxToolCalls == 4

\* calls, member calls included, issued in one behaviour of the specifications
\* of the bulk calls
MaxBulkCalls == 5

\* calls, member calls included, issued in one behaviour of the specification
\* with fairness
MaxLiveCalls == 3

\* calls, awaited calls included, issued in one behaviour of the specification
\* of registerServer and updateServerConfig
MaxConfigCalls == 4

\* child processes spawned in one behaviour of the ProcessManager
MaxChildren == 3

\* calls issued in one behaviour of the specification of the reading calls
MaxReaderCalls == 4

\* server names the calls are about
Names == {"s1", "s2"}

\* the name the schema-cache and tool-call specifications call
OneName == {"s1"}

\* ------------------------------------------------------------------- state

VARIABLES
    registry,      \* ServerRegistry.servers: name -> has a config
    launch,        \* name -> the launch parameters of its config in the registry
    connections,   \* ConnectionManager.connections: name -> McpConnection
    transports,    \* every StdioClientTransport constructed so far
    events,        \* connectionStatusChanged events the latest step emitted, in order
    lastEvent,     \* name -> the latest event emitted for it before that
    schemaCache,   \* SchemaManager.schemaCache: name -> cached mapping
    refetchDue,    \* name -> a disconnected/error event was emitted for it and no
                   \* listTools has run on the connected server since
    tasks,         \* the calls issued so far and where each is suspended
    nStarted,      \* number of calls issued so far
    wasConnected,  \* name -> its status has been connected at some time
    runningProcesses, \* ProcessManager.runningProcesses: name -> child (0: none)
    children,      \* every ChildProcess spawned so far
    pmCall         \* the latest call or event of the ProcessManager

vars == <<registry, launch, connections, transports, events, lastEvent, schemaCache, refetchDue,
         tasks, nStarted, wasConnected, runningProcesses, children, pmCall>>

Tasks == 1..MaxTasks

\* An Error object: its class, what it reports and the call that created it
\* (two Error objects are the same reference only if all three agree).
NoError == [kind |-> "none", why |-> "", by |-> 0]

MkError(kind, why, t) == [kind |-> kind, why |-> why, by |-> t]

\* No entry in ConnectionManager.connections for a name.
NoConn == [status |-> "none", lastError |-> NoError, transport |-> 0]

\* The record connect stores before the handshake.
McpConnection(tr) == [status |-> "connecting", lastError |-> NoError, transport |-> tr]

\* No entry in SchemaManager.schemaCache for a name.  An entry holds the
\* mapping (tools, in insertion order); via and last are bookkeeping of the
\* model: the transport the mapping was fetched over, and what the latest
\* listTools that returned from this entry returned.
NoCache == [present |-> FALSE, tools |-> <<>>, via |-> 0, last |-> <<>>]

\* No ToolCallResult.
NoResult == [success |-> FALSE, content |-> "undefined", error |-> "undefined",
             isError |-> "undefined"]

\* No error thrown by a tool call.  An error of a tool call is its class, the
\* fields a ToolCallError carries, its message and, for originalError, the
\* message of the error (or the string) it was made from.
NoThrown == [kind |-> "none", serverName |-> "", toolName |-> "", message |-> "",
             originalError |-> "undefined"]

\* A call not issued yet.
IdleTask ==
    [op |-> "idle", name |-> "", pc |-> "idle", res |-> "none", tr |-> 0,
     registeredAtStart |-> FALSE,
     statusAtStart |-> "none", statusAtReturn |-> "none", listedAtReturn |-> FALSE,
     pendingPeer |-> FALSE, livePeer |-> FALSE, emitted |-> 0,
     fetched |-> FALSE, clientAtStart |-> 0, cachedAtStart |-> NoCache,
     dueAtStart |-> FALSE, closeTried |-> FALSE, closeFailed |-> FALSE,
     tools |-> <<>>, via |-> 0,
     callback |-> FALSE, invoked |-> FALSE, updates |-> <<>>, result |-> NoResult,
     thrown |-> NoThrown, cause |-> NoThrown, toolCallEnd |-> NoResult,
     toolEvents |-> <<>>, response |-> <<>>,
     config |-> 0, autoConnect |-> FALSE, needsReconnect |-> FALSE,
     parent |-> 0, wanted |-> {}, members |-> {}, records |-> {}]

\* ------------------------------------------------- ConnectionManager reads

getStatus(n) ==
    IF connections[n] = NoConn THEN "disconnected" ELSE connections[n].status

getConnection(n) ==
    IF connections[n].status = "connected" THEN connections[n] ELSE NoConn

\* The client of a connected record, named by the transport it was connected over.
getClient(n) == getConnection(n).transport

listConnectedServers == {n \in Names : connections[n].status = "connected"}

\* --------------------------------------------- ConnectionManager lifecycle

\* No event emitted for a name yet.
NoEvent == [name |-> "", status |-> "none", error |-> NoError]

\* The latest event for n in the sequence es, or before if none is for n.
RECURSIVE latestFor(_, _, _)
latestFor(es, n, before) ==
    IF es = <<>> THEN before
    ELSE IF es[Len(es)].name = n THEN es[Len(es)]
    ELSE latestFor(SubSeq(es, 1, Len(es) - 1), n, before)

\* The event emitted for n just before the latest step's events.
EventBefore(n) == latestFor(events, n, lastEvent[n])

\* What a synchronous block works on: the connection table, the events it
\* emits, the schema cache (which the facade's listener touches), and which
\* names are due a fresh discovery.
Here == [c |-> connections, e |-> <<>>, s |-> schemaCache, d |-> refetchDue]

\* The block ends: its effects are the step's.
Commit(S) ==
    /\ connections' = S.c
    /\ events' = S.e
    /\ lastEvent' = [n \in Names |-> EventBefore(n)]
    /\ schemaCache' = S.s
    /\ refetchDue' = S.d
    /\ wasConnected' = [n \in Names |->
                            wasConnected[n] \/ S.c[n].status = "connected"]
    /\ UNCHANGED <<runningProcesses, children, pmCall>>

\* A block that touches neither the table nor the cache and emits nothing.
Silent == Commit(Here)

\* SchemaManager.invalidateCache
invalidateCache(cache, n) == [cache EXCEPT ![n] = NoCache]

\* emit('connectionStatusChanged', ...): the event, then the facade's listener,
\* which runs inside the emit and invalidates the cache on disconnected/error.
emitStatus(S, n, status, error) ==
    [S EXCEPT !.e = Append(@, [name |-> n, status |-> status, error |-> error]),
              !.s = IF status \in {"disconnected", "error"}
                    THEN invalidateCache(@, n) ELSE @,
              !.d = IF status \in {"disconnected", "error"}
                    THEN [@ EXCEPT ![n] = TRUE] ELSE @]

\* An _updateStatus that reports nothing for a name without a record.
updateStatusTrackedOnly(S, n, status, error) ==
    IF S.c[n] # NoConn /\ (S.c[n].status # status \/ S.c[n].lastError # error)
    THEN emitStatus([S EXCEPT !.c[n].status = status, !.c[n].lastError = error],
                    n, status, error)
    ELSE S

\* ConnectionManager._updateStatus
updateStatus(S, n, status, error) ==
    IF S.c[n] # NoConn
    THEN IF S.c[n].status = status /\ S.c[n].lastError = error
         THEN S
         ELSE emitStatus([S EXCEPT !.c[n].status = status, !.c[n].lastError = error],
                         n, status, error)
    ELSE IF status \in {"disconnected", "error"}
         THEN emitStatus(S, n, status, error)
         ELSE S

\* this.connections.delete(serverName)
deleteConnection(S, n) == [S EXCEPT !.c[n] = NoConn]

\* The early return taken for a connected record only.
alreadyActiveConnectedOnly(existing) == existing.status = "connected"

\* connect's test of the existing record (the early return)
alreadyActive(existing) == existing.status \in {"connected", "connecting"}

\* disconnect's test before closing the transport
needsClose(conn) == conn.status \in {"connecting", "connected"}

\* A disconnect that marks the record disconnected and leaves it in the table.
disconnectClosedKeepsRecord(S, n) ==
    updateStatus(S, n, "disconnected", NoError)

\* disconnect when the close succeeded or was not needed
disconnectClosed(S, n) ==
    deleteConnection(updateStatus(S, n, "disconnected", NoError), n)

\* A rejected close that marks the record and leaves it in the table.
disconnectCloseFailedKeepsRecord(S, n, error) ==
    updateStatus(S, n, "error", error)

\* A rejected close that removes the record and reports nothing.
disconnectCloseFailedSilently(S, n, error) ==
    deleteConnection(S, n)

\* disconnect when transport.close() rejected
disconnectCloseFailed(S, n, error) ==
    deleteConnection(updateStatus(S, n, "error", error), n)

\* A failed attempt that is reported and stays in the table.
connectFailedKeepsRecord(S, n, error) ==
    updateStatus(S, n, "error", error)

\* connect when the handshake rejected (after the best-effort close)
connectFailed(S, n, error) ==
    deleteConnection(updateStatus(S, n, "error", error), n)

\* --------------------------------------------------------------- the calls

\* A call that has settled and whose outcome the caller has taken.
GoneTask == [IdleTask EXCEPT !.op = "gone", !.pc = "gone"]

\* The call t moves to T.  The outcome of a settled call stays in tasks for one
\* step, the moment the call returns; the next step of any call drops it.
Set(t, T) ==
    tasks' = [u \in Tasks |-> IF u = t THEN T
                              ELSE IF tasks[u].pc = "done" THEN GoneTask
                              ELSE tasks[u]]

\* The call t is issued now: calls are numbered in the order they are issued.
Issue(t) ==
    /\ t \in Tasks
    /\ t = nStarted + 1
    /\ nStarted' = t

\* The call goes on: count the status events this block emitted.
Went(T, S) == [T EXCEPT !.emitted = @ + Len(S.e)]

\* The call settles with res ("ok" or the class of the error thrown).
Return(T, res, S) ==
    [Went(T, S) EXCEPT
        !.pc = "done", !.res = res,
        !.statusAtReturn = IF S.c[T.name] = NoConn THEN "disconnected"
                           ELSE S.c[T.name].status,
        !.listedAtReturn = (S.c[T.name].status = "connected")]

\* Another connect(n) has not settled yet.
PendingConnect(n) ==
    \E u \in Tasks : /\ tasks[u].op = "connect" /\ tasks[u].name = n
                     /\ tasks[u].pc \notin {"idle", "done", "gone"}

\* Another connect(n) has not settled yet and the record it stored is the one
\* in the table.
LiveConnect(n) ==
    \E u \in Tasks : /\ tasks[u].op = "connect" /\ tasks[u].name = n
                     /\ tasks[u].pc \notin {"idle", "done", "gone"}
                     /\ tasks[u].tr # 0
                     /\ connections[n].transport = tasks[u].tr

NewTask(op, n) ==
    [IdleTask EXCEPT !.op = op, !.name = n, !.statusAtStart = getStatus(n),
                     !.registeredAtStart = registry[n],
                     !.pendingPeer = PendingConnect(n), !.livePeer = LiveConnect(n)]

\* connect, lines 45-96: from "Connecting to server" to the handshake's await.
ConnectAttempt(t, T, S) ==
    LET n == T.name
        S1 == updateStatus(S, n, "connecting", NoError)
    IN  IF ~registry[n]
        THEN LET S2 == updateStatus(S1, n, "error", MkError("ServerNotFoundError", "config", t))
             IN  /\ Commit(S2)
                 /\ Set(t, Return(T, "ServerNotFoundError", S2))
                 /\ UNCHANGED transports
        ELSE \E constructed \in BOOLEAN :
               IF constructed
               THEN LET tr == Len(transports) + 1
                        S2 == [S1 EXCEPT !.c[n] = McpConnection(tr)]
                    IN  /\ transports' = Append(transports, [name |-> n, open |-> TRUE,
                                                             config |-> launch[n]])
                        /\ Commit(S2)
                        /\ Set(t,
                                        [Went(T, S2) EXCEPT !.pc = "handshake", !.tr = tr])
               ELSE LET S2 == updateStatus(S1, n, "error", MkError("ProcessError", "spawn", t))
                    IN  /\ Commit(S2)
                        /\ Set(t, Return(T, "ProcessError", S2))
                        /\ UNCHANGED transports

\* connect(n), from the call to its first await: the early return, the cleanup
\* of a stale record (await this.disconnect), or the attempt itself.  A call
\* suspended in the cleanup goes on with the attempt.
Connect(t, n) ==
    IF tasks[t].op = "connect" /\ tasks[t].pc = "cleanup" /\ tasks[t].name = n
    THEN /\ ConnectAttempt(t, tasks[t], Here)
         /\ UNCHANGED <<registry, launch, nStarted>>
    ELSE /\ Issue(t)
         /\ UNCHANGED <<registry, launch>>
         /\ LET T == NewTask("connect", n)
                existing == connections[n]
            IN  IF alreadyActive(existing)
                THEN /\ Set(t, Return(T, "ok", Here))
                     /\ Silent
                     /\ UNCHANGED transports
                ELSE IF existing # NoConn
                THEN LET S1 == disconnectClosed(Here, n)
                     IN  /\ Commit(S1)
                         /\ Set(t, [Went(T, S1) EXCEPT !.pc = "cleanup"])
                         /\ UNCHANGED transports
                ELSE ConnectAttempt(t, T, Here)

\* What client.connect(transport) can answer: a closed transport rejects.
HandshakeAnswers(tr) == IF transports[tr].open THEN {"ok", "fail"} ELSE {"fail"}

\* connect, lines 105-114: the handshake settles.
Handshake(t) ==
    /\ tasks[t].pc = "handshake"
    /\ \E answer \in HandshakeAnswers(tasks[t].tr) :
         IF answer = "ok"
         THEN LET S1 == updateStatus(Here, tasks[t].name, "connected", NoError)
              IN  /\ Commit(S1)
                  /\ Set(t, Return(tasks[t], "ok", S1))
         ELSE /\ Set(t, [tasks[t] EXCEPT !.pc = "closing"])
              /\ Silent
    /\ UNCHANGED <<registry, launch, transports, nStarted>>

\* transport.close() settles: on success the transport is closed.
closeTransport(trs, tr, closed) ==
    IF closed THEN [trs EXCEPT ![tr].open = FALSE] ELSE trs

\* connect, lines 114-118: the best-effort close settled (its failure is only
\* logged), the attempt is reported and removed.
ConnectGiveUp(t) ==
    /\ tasks[t].pc = "closing"
    /\ \E closed \in BOOLEAN :
         LET S1 == connectFailed(Here, tasks[t].name,
                                 MkError("ConnectionError", "handshake", t))
         IN  /\ transports' = closeTransport(transports, tasks[t].tr, closed)
             /\ Commit(S1)
             /\ Set(t, [Return(tasks[t], "ConnectionError", S1) EXCEPT
                            !.closeTried = TRUE])
    /\ UNCHANGED <<registry, launch, nStarted>>

\* The caller of disconnect goes on once disconnect has returned: a disconnect
\* call settles, unregisterServer goes on to the registry.
AfterDisconnect(T, S) ==
    IF T.op = "unregister"
    THEN [Went(T, S) EXCEPT !.pc = "unregistering"]
    ELSE Return(T, "ok", S)

\* A disconnect that reports and removes whatever it finds, a record or none.
DisconnectCallAnnounces(t, T) ==
    LET S1 == disconnectClosed(Here, T.name)
    IN  /\ Commit(S1)
        /\ Set(t, AfterDisconnect(T, S1))

\* disconnect, lines 126-140: from the call to the close's await, or to the
\* return when there is nothing to close.
DisconnectCall(t, T) ==
    LET n == T.name
        conn == connections[n]
    IN  IF conn = NoConn
        THEN /\ Set(t, AfterDisconnect(T, Here))
             /\ Silent
        ELSE IF needsClose(conn)
        THEN /\ Set(t,
                             [T EXCEPT !.pc = "disconnecting", !.tr = conn.transport])
             /\ Silent
        ELSE LET S1 == disconnectClosed(Here, n)
             IN  /\ Commit(S1)
                 /\ Set(t, AfterDisconnect(T, S1))

\* disconnect(n) is called.
Disconnect(t, n) ==
    /\ Issue(t)
    /\ DisconnectCall(t, NewTask("disconnect", n))
    /\ UNCHANGED <<registry, launch, transports>>

\* disconnect, lines 140-154: the close settled.
DisconnectSettle(t) ==
    /\ tasks[t].pc = "disconnecting"
    /\ \E closed \in BOOLEAN :
         LET n == tasks[t].name
             S1 == IF closed
                   THEN disconnectClosed(Here, n)
                   ELSE disconnectCloseFailed(Here, n, MkError("ConnectionError", "close", t))
         IN  /\ transports' = closeTransport(transports, tasks[t].tr, closed)
             /\ Commit(S1)
             /\ Set(t, AfterDisconnect([tasks[t] EXCEPT !.closeTried = TRUE,
                                                        !.closeFailed = ~closed], S1))
    /\ UNCHANGED <<registry, launch, nStarted>>

\* ------------------------------------------------ McpManager.unregisterServer

\* unregisterServer(n) is called: it awaits disconnectServer(n) first.
Unregister(t, n) ==
    /\ Issue(t)
    /\ DisconnectCall(t, NewTask("unregister", n))
    /\ UNCHANGED <<registry, launch, transports>>

\* ServerRegistry.unregisterServer, lines 95-107: up to the persist's await.
UnregisterRegistry(t) ==
    /\ tasks[t].pc = "unregistering"
    /\ IF ~registry[tasks[t].name]
       THEN /\ Set(t, Return(tasks[t], "ServerNotFoundError", Here))
            /\ UNCHANGED <<registry, launch>>
       ELSE /\ registry' = [registry EXCEPT ![tasks[t].name] = FALSE]
            /\ UNCHANGED launch
            /\ Set(t, [tasks[t] EXCEPT !.pc = "persisting"])
    /\ Silent
    /\ UNCHANGED <<transports, nStarted>>

\* The registry is persisted; unregisterServer emits serverUnregistered and returns.
UnregisterDone(t) ==
    /\ tasks[t].pc = "persisting"
    /\ Set(t, Return(tasks[t], "ok", Here))
    /\ Silent
    /\ UNCHANGED <<registry, launch, transports, nStarted>>

\* ---------------------------------------------------- SchemaManager.listTools

\* A tool descriptor of a discovery response: a tool name and which definition of it.
Descriptor(name, def) == [name |-> name, def |-> def]

\* The responses of client.listTools() the servers give: no tools, one tool, and
\* the same tool listed twice with different definitions.
Responses ==
    {<<>>,
     <<Descriptor("t1", 1)>>,
     <<Descriptor("t1", 1), Descriptor("t2", 1), Descriptor("t1", 2)>>}

\* A map that keeps the first definition stored under a name.
mapSetKeepsFirst(m, d) ==
    IF \E i \in 1..Len(m) : m[i].name = d.name THEN m ELSE Append(m, d)

\* Map.set(name, def): a new key is appended, an existing key keeps its place.
mapSet(m, d) ==
    IF \E i \in 1..Len(m) : m[i].name = d.name
    THEN [i \in 1..Len(m) |-> IF m[i].name = d.name THEN d ELSE m[i]]
    ELSE Append(m, d)

\* listTools, lines 51-64: the mapping built from a response, descriptor by descriptor.
RECURSIVE toolsMap(_)
toolsMap(response) ==
    IF response = <<>> THEN <<>>
    ELSE mapSet(toolsMap(SubSeq(response, 1, Len(response) - 1)), response[Len(response)])

\* A cache that stores a fresh mapping in place of the one that was built.
cacheSetEmpty(cache, n, m) ==
    [cache EXCEPT ![n] = [present |-> TRUE, tools |-> <<>>, via |-> 0, last |-> <<>>]]

\* this.schemaCache.set(serverName, toolsMap)
cacheSet(cache, n, m) ==
    [cache EXCEPT ![n] = [present |-> TRUE, tools |-> m, via |-> 0, last |-> <<>>]]

\* this.schemaCache.has(serverName)
cacheHas(cache, n) == cache[n].present

\* Bookkeeping: the entry of n was fetched over transport tr, and the call
\* that used it last returned the mapping m.
Noted(cache, n, tr, m) ==
    IF cache[n].present THEN [cache EXCEPT ![n].via = tr, ![n].last = m] ELSE cache

\* Bookkeeping: a listTools runs on n; if the server is connected the name is
\* no longer due a fresh discovery.
ranOnConnected(due, n) ==
    IF getClient(n) # 0 THEN [due EXCEPT ![n] = FALSE] ELSE due

\* The two failures of listTools without a client the other way round.
listToolsNoClientSwapped(status) ==
    IF status # "disconnected" THEN "ServerNotFoundError" ELSE "ConnectionError"

\* listTools, lines 37-46: the failure when there is no client
listToolsNoClient(status) ==
    IF status # "disconnected" THEN "ConnectionError" ELSE "ServerNotFoundError"

\* new ConnectionError(serverName, message, originalError)
ConnectionError(serverName, message, originalError) ==
    [kind |-> "ConnectionError", serverName |-> serverName, toolName |-> "",
     message |-> message, originalError |-> originalError]

\* listTools(n), lines 28-50, called as op (by the caller or by getToolSchema):
\* a cache hit returns, a miss fails without a client or issues the discovery
\* call.
ListToolsAs(t, n, op) ==
    /\ UNCHANGED <<registry, launch>>
    /\ LET T == [NewTask(op, n) EXCEPT
                    !.clientAtStart = getClient(n), !.cachedAtStart = schemaCache[n],
                    !.dueAtStart = refetchDue[n]]
           Ran == [Here EXCEPT !.d = ranOnConnected(@, n)]
       IN  IF cacheHas(schemaCache, n)
           THEN /\ Set(t, [Return(T, "ok", Here) EXCEPT
                               !.tools = schemaCache[n].tools,
                               !.via = schemaCache[n].via])
                /\ Commit([Ran EXCEPT !.s = Noted(@, n, schemaCache[n].via,
                                                  schemaCache[n].tools)])
           ELSE IF getClient(n) = 0
           THEN /\ Set(t, Return(T, listToolsNoClient(getStatus(n)), Here))
                /\ Silent
           ELSE /\ Set(t,
                                [T EXCEPT !.pc = "listing", !.tr = getClient(n), !.fetched = TRUE])
                /\ Commit(Ran)

\* listTools(n) is called.
ListTools(t, n) ==
    /\ Issue(t)
    /\ ListToolsAs(t, n, "listTools")
    /\ UNCHANGED transports

\* getToolSchema(n, toolName) is called: it awaits listTools(n).
GetToolSchema(t, n) ==
    /\ Issue(t)
    /\ ListToolsAs(t, n, "getToolSchema")
    /\ UNCHANGED transports

\* serverTools.get(toolName): the definition stored under the name, 0 for
\* undefined.
mapGet(m, name) ==
    IF \E i \in 1..Len(m) : m[i].name = name
    THEN (CHOOSE d \in {m[i] : i \in 1..Len(m)} : d.name = name).def
    ELSE 0

\* An invalidateCache that drops the connection with the entry.
InvalidateCacheDisconnects(t, n) ==
    /\ Issue(t)
    /\ Set(t, Return(NewTask("invalidateCache", n), "ok", Here))
    /\ Commit(disconnectClosed(Here, n))
    /\ UNCHANGED <<registry, launch, transports>>

\* invalidateCache(n) is called: the entry of n is deleted.
InvalidateCacheCall(t, n) ==
    /\ Issue(t)
    /\ Set(t, Return(NewTask("invalidateCache", n), "ok", Here))
    /\ Commit([Here EXCEPT !.s = invalidateCache(@, n)])
    /\ UNCHANGED <<registry, launch, transports>>

\* getStatus(n) is called: the call returns the status it reads.
GetStatusCall(t, n) ==
    /\ Issue(t)
    /\ Set(t, Return(NewTask("getStatus", n), "ok", Here))
    /\ Silent
    /\ UNCHANGED <<registry, launch, transports>>

\* listConnectedServers() is called: the call returns the names it reads.
ListConnectedCall(t) ==
    /\ Issue(t)
    /\ Set(t, [IdleTask EXCEPT !.op = "listConnectedServers", !.pc = "done",
                               !.res = "ok", !.members = listConnectedServers])
    /\ Silent
    /\ UNCHANGED <<registry, launch, transports>>

\* What a request over a transport can answer: a closed transport rejects.
RequestAnswers(tr) == IF transports[tr].open THEN {"ok", "fail"} ELSE {"fail"}

\* listTools, lines 50-79: the discovery call settles.
ListSettle(t) ==
    /\ tasks[t].pc = "listing"
    /\ \E answer \in RequestAnswers(tasks[t].tr) :
         IF answer = "ok"
         THEN \E response \in Responses :
                /\ Commit([Here EXCEPT !.s =
                               Noted(cacheSet(@, tasks[t].name, toolsMap(response)),
                                     tasks[t].name, tasks[t].tr, toolsMap(response))])
                /\ Set(t,
                                [Return(tasks[t], "ok", Here) EXCEPT
                                    !.tools = toolsMap(response), !.via = tasks[t].tr,
                                    !.response = response])
         ELSE /\ Commit([Here EXCEPT !.s = invalidateCache(@, tasks[t].name)])
              /\ Set(t, [Return(tasks[t], "ConnectionError", Here) EXCEPT
                             !.thrown = ConnectionError(tasks[t].name,
                                            "Failed to list tools: cause", "cause")])
    /\ UNCHANGED <<registry, launch, transports, nStarted>>

\* ------------------------------------------------------ ToolInvoker.callTool

\* What the server answers to a tool call: isError and content as sent (either
\* may be missing).
SdkResponses ==
    [isError : {"true", "false", "undefined"}, content : {"text", "undefined"}]

\* JSON.stringify of the response's content: undefined stays undefined.
stringify(content) ==
    IF content = "undefined" THEN "undefined" ELSE "json of " \o content

\* An envelope without its error string.
toolCallResultNoError(response) ==
    [success |-> response.isError # "true",
     content |-> response.content,
     error   |-> "undefined",
     isError |-> response.isError]

\* An envelope that succeeds only when the response says isError: false.
toolCallResultStrict(response) ==
    [success |-> response.isError = "false",
     content |-> response.content,
     error   |-> IF response.isError = "true" THEN stringify(response.content)
                 ELSE "undefined",
     isError |-> response.isError]

\* callTool, lines 72-82: the ToolCallResult built from the response.
toolCallResult(response) ==
    [success |-> response.isError # "true",
     content |-> response.content,
     error   |-> IF response.isError = "true" THEN stringify(response.content)
                 ELSE "undefined",
     isError |-> response.isError]

\* new ToolCallError(serverName, toolName, message, originalError)
ToolCallError(serverName, toolName, message, originalError) ==
    [kind |-> "ToolCallError", serverName |-> serverName, toolName |-> toolName,
     message |-> message, originalError |-> originalError]

\* The tool every call of the model names.
ToolName == "tool"

\* What client.callTool rejects with: a plain Error, or an error that is a
\* ToolCallError already (made for another server and tool).
Rejections ==
    {[kind |-> "Error", serverName |-> "", toolName |-> "", message |-> "cause",
      originalError |-> "undefined"],
     ToolCallError("s2", "other", "inner", "inner cause")}

\* callTool, lines 87-92: the error thrown for a result with isError.
toolFailure(n, result) ==
    LET errorMessage == IF result.error # "undefined" THEN result.error
                        ELSE "Tool reported an unspecified error"
    IN  ToolCallError(n, ToolName, errorMessage, errorMessage)

\* A catch that wraps whatever it caught.
rethrownWrapped(n, error) ==
    ToolCallError(n, ToolName, "Failed to call tool: " \o error.message, error.message)

\* callTool, lines 101-109: what the catch throws for the error it caught.
rethrown(n, error) ==
    IF error.kind = "ToolCallError" THEN error
    ELSE ToolCallError(n, ToolName, "Failed to call tool: " \o error.message, error.message)

\* The two failures of the precondition the other way round.
callToolNoClientSwapped(status) ==
    IF status = "disconnected" THEN "ConnectionError" ELSE "ServerNotFoundError"

\* callTool, lines 41-49: the failure when there is no client
callToolNoClient(status) ==
    IF status = "disconnected" THEN "ServerNotFoundError" ELSE "ConnectionError"

\* McpManager.callTool, line 226: the result the catch puts in toolCallEnd.
errorResult(message) ==
    [success |-> FALSE, content |-> "undefined", error |-> message, isError |-> "true"]

\* A facade that emits toolCallEnd only for a call that returned.
emitToolCallEndOnReturn(T) ==
    IF T.res = "ok"
    THEN [T EXCEPT !.toolCallEnd = T.result,
                   !.toolEvents = Append(@, "toolCallEnd")]
    ELSE T

\* McpManager.callTool, lines 221-231: toolCallEnd carries the result of a call
\* that returned and the catch's result for a call that threw (which is thrown
\* on as it is).
emitToolCallEnd(T) ==
    [T EXCEPT !.toolCallEnd = IF T.res = "ok" THEN T.result
                              ELSE errorResult("message"),
              !.toolEvents = Append(@, "toolCallEnd")]

\* McpManager.callTool, lines 214-219: the handler handed to the invoker wraps
\* onUpdate; without onUpdate there is no handler.
updateHandler(onUpdate) == onUpdate

\* The toolCallUpdate events of a call: the handler emits one for each update
\* it receives, before it hands the update to onUpdate.
toolCallUpdates(T) == IF updateHandler(T.callback) THEN T.updates ELSE <<>>

\* onUpdate?.(update)
deliver(updates, callback, update) ==
    IF callback THEN Append(updates, update) ELSE updates

\* callTool(n, ...), lines 32-56: the precondition, tool_start, the invoke.
CallTool(t, n, callback) ==
    /\ Issue(t)
    /\ LET T == [NewTask("callTool", n) EXCEPT
                    !.clientAtStart = getClient(n), !.callback = callback,
                    !.toolEvents = <<"toolCallStart">>]
       IN  IF getClient(n) = 0
           THEN Set(t, emitToolCallEnd(Return(T, callToolNoClient(getStatus(n)), Here)))
           ELSE Set(t,
                    [T EXCEPT !.pc = "invoking", !.tr = getClient(n), !.invoked = TRUE,
                              !.updates = deliver(<<>>, callback,
                                  [type |-> "tool_start", isFinal |-> FALSE,
                                   content |-> "call"])])
    /\ Silent
    /\ UNCHANGED <<registry, launch, transports>>

\* callTool, lines 56-110: the invoke settles.
ToolSettle(t) ==
    /\ tasks[t].pc = "invoking"
    /\ \E answer \in RequestAnswers(tasks[t].tr) :
         IF answer = "ok"
         THEN \E response \in SdkResponses :
                LET result == toolCallResult(response)
                    ended == deliver(tasks[t].updates, tasks[t].callback,
                                 [type |-> "tool_end", isFinal |-> TRUE, content |-> "result"])
                IN  IF result.isError = "true"
                    THEN Set(t, emitToolCallEnd(
                             [Return(tasks[t], "ToolCallError", Here) EXCEPT
                                 !.result = result,
                                 !.cause = toolFailure(tasks[t].name, result),
                                 !.thrown = rethrown(tasks[t].name,
                                                toolFailure(tasks[t].name, result)),
                                 !.updates = deliver(ended, tasks[t].callback,
                                     [type |-> "error", isFinal |-> TRUE,
                                      content |-> "message"])]))
                    ELSE Set(t, emitToolCallEnd(
                             [Return(tasks[t], "ok", Here) EXCEPT
                                 !.result = result, !.updates = ended]))
         ELSE \E error \in Rejections :
                Set(t, emitToolCallEnd(
                    [Return(tasks[t], "ToolCallError", Here) EXCEPT
                        !.cause = error,
                        !.thrown = rethrown(tasks[t].name, error),
                        !.updates = deliver(tasks[t].updates, tasks[t].callback,
                            [type |-> "error", isFinal |-> TRUE, content |-> "message"])]))
    /\ Silent
    /\ UNCHANGED <<registry, launch, transports, nStarted>>

\* -------------------------------------- connectAll, auto-connect, disconnectAll

\* The order in which a bulk call walks the names (the iteration order of the
\* registry's and the table's Map).
NameSeq == <<"s1", "s2">>

inOrder(names) == SelectSeq(NameSeq, LAMBDA n : n \in names)

\* connect(n) from the call to its first await or its return, as a member of a
\* bulk call: the block works on S and on the transports trs constructed so far.
connectStarted(S, trs, T, t, constructed) ==
    LET n == T.name
        S1 == updateStatus(S, n, "connecting", NoError)
    IN  IF alreadyActive(S.c[n])
        THEN [S |-> S, trs |-> trs, T |-> Return(T, "ok", S)]
        ELSE IF S.c[n] # NoConn
        THEN LET S2 == disconnectClosed(S, n)
             IN  [S |-> S2, trs |-> trs, T |-> [Went(T, S2) EXCEPT !.pc = "cleanup"]]
        ELSE IF ~registry[n]
        THEN LET S2 == updateStatus(S1, n, "error",
                                    MkError("ServerNotFoundError", "config", t))
             IN  [S |-> S2, trs |-> trs, T |-> Return(T, "ServerNotFoundError", S2)]
        ELSE IF constructed
        THEN LET tr == Len(trs) + 1
                 S2 == [S1 EXCEPT !.c[n] = McpConnection(tr)]
             IN  [S |-> S2, trs |-> Append(trs, [name |-> n, open |-> TRUE,
                                                  config |-> launch[n]]),
                  T |-> [Went(T, S2) EXCEPT !.pc = "handshake", !.tr = tr]]
        ELSE LET S2 == updateStatus(S1, n, "error", MkError("ProcessError", "spawn", t))
             IN  [S |-> S2, trs |-> trs, T |-> Return(T, "ProcessError", S2)]

\* disconnect(n) from the call to its first await or its return, as a member of
\* disconnectAll.
disconnectStarted(S, trs, T) ==
    LET n == T.name
    IN  IF S.c[n] = NoConn
        THEN [S |-> S, trs |-> trs, T |-> AfterDisconnect(T, S)]
        ELSE IF needsClose(S.c[n])
        THEN [S |-> S, trs |-> trs,
              T |-> [T EXCEPT !.pc = "disconnecting", !.tr = S.c[n].transport]]
        ELSE LET S2 == disconnectClosed(S, n)
             IN  [S |-> S2, trs |-> trs, T |-> AfterDisconnect(T, S2)]

\* names.map(name => this.connectServer(name).catch(...)) and the like: the
\* member calls are made one after the other in one block, each running up to
\* its first await; the calls are numbered from t on.
RECURSIVE startEach(_, _, _, _, _)
startEach(W, ns, t, op, constructed) ==
    IF ns = <<>> THEN W
    ELSE LET n == Head(ns)
             S0 == [W.S EXCEPT !.e = <<>>]
             T == [NewTask(op, n) EXCEPT !.parent = W.parent]
             out == IF op = "connect"
                    THEN connectStarted(S0, W.trs, T, t, constructed[n])
                    ELSE disconnectStarted(S0, W.trs, T)
         IN  startEach([W EXCEPT !.S = [out.S EXCEPT !.e = W.S.e \o out.S.e],
                                 !.trs = out.trs,
                                 !.ts = [@ EXCEPT ![t] = out.T]],
                       Tail(ns), t + 1, op, constructed)

\* A bulk call t is made: its member calls on names are started, then it waits
\* at await Promise.all(...).  wanted is bookkeeping: the names the call is
\* for; records is the transports of their records at the call.
Bulk(t, bulk, op, names, wanted) ==
    /\ t \in Tasks
    /\ t = nStarted + 1
    /\ t + Cardinality(names) <= MaxBulkCalls
    /\ \E constructed \in IF op = "connect" THEN [Names -> BOOLEAN]
                           ELSE {[n \in Names |-> FALSE]} :
         LET P == [IdleTask EXCEPT
                      !.op = bulk, !.pc = "gathering", !.wanted = wanted,
                      !.members = names,
                      !.records = {connections[n].transport : n \in wanted} \ {0}]
             settled == [u \in Tasks |-> IF tasks[u].pc = "done" THEN GoneTask
                                         ELSE tasks[u]]
             W == startEach([S |-> Here, trs |-> transports,
                             ts |-> [settled EXCEPT ![t] = P], parent |-> t],
                            inOrder(names), t + 1, op, constructed)
         IN  /\ tasks' = W.ts
             /\ transports' = W.trs
             /\ Commit(W.S)
             /\ nStarted' = t + Cardinality(names)
    /\ UNCHANGED <<registry, launch>>

\* Object.keys(this.serverRegistry.getAllServers())
registeredNames(reg) == {n \in Names : reg[n]}

\* The registered servers whose config has autoConnect !== false (auto).
autoConnectNames(reg, auto) == {n \in Names : reg[n] /\ n \in auto}

\* Only the connected names of the table.
connectedNames(table) == {n \in Names : table[n].status = "connected"}

\* Array.from(this.connections.keys())
trackedNames(table) == {n \in Names : table[n] # NoConn}

\* McpManager.connectAllServers (the manager being initialized)
ConnectAllServers(t) ==
    Bulk(t, "connectAll", "connect", registeredNames(registry),
         {n \in Names : registry[n]})

\* McpManager.initialize, lines 78-95: the auto-connect, once the registry is
\* loaded; auto is the servers whose config does not have autoConnect false.
AutoConnect(t) ==
    \E auto \in SUBSET Names :
        Bulk(t, "autoConnect", "connect", autoConnectNames(registry, auto),
             {n \in auto : registry[n]})

\* ConnectionManager.disconnectAll
DisconnectAll(t) ==
    Bulk(t, "disconnectAll", "disconnect", trackedNames(connections),
         {n \in Names : connections[n] # NoConn})

\* A Promise.all that never resolves.
neverSettled(t) == FALSE

\* A bulk call that does not wait for its member calls.
notAwaited(t) == TRUE

\* Promise.all over the member calls (each with its failure caught): every
\* member call has settled.
allSettled(t) ==
    \A u \in Tasks : tasks[u].parent = t => tasks[u].pc \in {"done", "gone"}

\* await Promise.all(...) goes on: the bulk call returns.
BulkDone(t) ==
    /\ tasks[t].pc = "gathering"
    /\ allSettled(t)
    /\ Set(t, [tasks[t] EXCEPT !.pc = "done", !.res = "ok"])
    /\ Silent
    /\ UNCHANGED <<registry, launch, transports, nStarted>>

\* ------------------------- McpManager.registerServer and updateServerConfig

\* The launch parameters (command, args, env, workingDir) a config can have.
Configs == {1, 2}

\* The config the record of n was stored with, which is the one its transport
\* was constructed from.
recordConfig(n) == transports[connections[n].transport].config

\* The call t awaits this.connectServer(n) or this.disconnectServer(n): the
\* awaited call is made now and runs up to its first await, and t goes on at
\* pc once it has settled (a failure of connectServer is caught and logged).
Awaits(t, op, pc) ==
    /\ nStarted + 1 \in 1..MaxConfigCalls
    /\ \E constructed \in IF op = "connect" THEN [Names -> BOOLEAN]
                           ELSE {[n \in Names |-> FALSE]} :
         LET settled == [u \in Tasks |-> IF tasks[u].pc = "done" THEN GoneTask
                                         ELSE tasks[u]]
             W == startEach([S |-> Here, trs |-> transports,
                             ts |-> [settled EXCEPT ![t] = [tasks[t] EXCEPT !.pc = pc]],
                             parent |-> t],
                            <<tasks[t].name>>, nStarted + 1, op, constructed)
         IN  /\ tasks' = W.ts
             /\ transports' = W.trs
             /\ Commit(W.S)
             /\ nStarted' = nStarted + 1

\* registerServer(n, config) is called: the registry stores the config
\* (ServerRegistry.registerServer, servers.set) and persists it.
RegisterServer(t, n, config, autoConnect) ==
    /\ Issue(t)
    /\ registry' = [registry EXCEPT ![n] = TRUE]
    /\ launch' = [launch EXCEPT ![n] = config]
    /\ Set(t, [NewTask("registerServer", n) EXCEPT
                   !.pc = "registering", !.config = config,
                   !.autoConnect = autoConnect])
    /\ Silent
    /\ UNCHANGED transports

\* registerServer, lines 102-109: the registry is persisted; serverRegistered
\* is emitted and the server is connected unless autoConnect is false (the
\* manager being initialized).
RegisterPersisted(t) ==
    /\ tasks[t].pc = "registering"
    /\ IF tasks[t].autoConnect
       THEN Awaits(t, "connect", "gathering")
       ELSE /\ Set(t, Return(tasks[t], "ok", Here))
            /\ Silent
            /\ UNCHANGED <<transports, nStarted>>
    /\ UNCHANGED <<registry, launch>>

\* The test of updateServerConfig, lines 129-132: a launch parameter differs.
needsReconnect(oldConfig, config) == oldConfig # config

\* updateServerConfig(n, config) is called, lines 121-126: a name without a
\* config fails, otherwise the registry stores the config and persists it.
UpdateServerConfig(t, n, config, autoConnect) ==
    /\ Issue(t)
    /\ IF ~registry[n]
       THEN /\ Set(t, Return(NewTask("updateServerConfig", n),
                             "ServerNotFoundError", Here))
            /\ UNCHANGED launch
       ELSE /\ launch' = [launch EXCEPT ![n] = config]
            /\ Set(t, [NewTask("updateServerConfig", n) EXCEPT
                           !.pc = "updating", !.config = config,
                           !.autoConnect = autoConnect,
                           !.needsReconnect = needsReconnect(launch[n], config)])
    /\ Silent
    /\ UNCHANGED <<registry, transports>>

\* updateServerConfig, lines 127-136: the registry is persisted;
\* serverConfigUpdated is emitted and a server whose launch parameters changed
\* and whose status is not disconnected is disconnected.
UpdatePersisted(t) ==
    /\ tasks[t].pc = "updating"
    /\ IF tasks[t].needsReconnect /\ getStatus(tasks[t].name) # "disconnected"
       THEN Awaits(t, "disconnect", "reconnecting")
       ELSE /\ Set(t, Return(tasks[t], "ok", Here))
            /\ Silent
            /\ UNCHANGED <<transports, nStarted>>
    /\ UNCHANGED <<registry, launch>>

\* updateServerConfig, lines 136-141: the disconnect has returned; the server
\* is connected again unless autoConnect is false.
UpdateDisconnected(t) ==
    /\ tasks[t].pc = "reconnecting"
    /\ allSettled(t)
    /\ IF tasks[t].autoConnect
       THEN Awaits(t, "connect", "gathering")
       ELSE /\ Set(t, Return(tasks[t], "ok", Here))
            /\ Silent
            /\ UNCHANGED <<transports, nStarted>>
    /\ UNCHANGED <<registry, launch>>

\* ------------------------------------------------------------ ProcessManager

\* No call of the ProcessManager yet.  A call or event is recorded with the
\* name it is for, the child that was tracked for the name when it began, the
\* child it spawned (0: none) and its outcome.
NoCall == [op |-> "none", name |-> "", replaced |-> 0, spawned |-> 0, res |-> "none"]

\* The variables of the McpManager, which the ProcessManager does not touch.
managerVars ==
    <<registry, launch, connections, transports, events, lastEvent, schemaCache,
      refetchDue, tasks, nStarted, wasConnected>>

\* The ProcessManager's map and the children spawned so far.
Processes == [run |-> runningProcesses, kids |-> children]

\* A ChildProcess just spawned for n.  killed is the handle's flag (a signal
\* was delivered by kill); signalled and released are bookkeeping: the manager
\* called kill on the child, and stopServer(n) was called since the spawn.
ChildProcess(n) ==
    [name |-> n, state |-> "alive", killed |-> FALSE, signalled |-> FALSE,
     released |-> FALSE]

\* How the kill of stopServer goes: SIGTERM is sent; SIGTERM is not sent and
\* SIGKILL is; neither is sent; kill throws.
KillOutcomes == {"sent", "escalated", "notSent", "threw"}

\* ProcessManager.isRunning
isRunning(P, n) == P.run[n] # 0

\* ProcessManager.getProcess
getProcess(P, n) == P.run[n]

\* Bookkeeping: stopServer(n) is called, on the children spawned for n so far.
released(kids, n) ==
    [p \in 1..Len(kids) |->
        IF kids[p].name = n THEN [kids[p] EXCEPT !.released = TRUE] ELSE kids[p]]

\* child.kill('SIGTERM'), and child.kill('SIGKILL') if that returned false: the
\* handle is killed once a signal was delivered.
signalled(child, outcome) ==
    [name |-> child.name, state |-> child.state,
     killed |-> (outcome \in {"sent", "escalated"}), signalled |-> TRUE,
     released |-> child.released]

\* A stopServer that signals the child and keeps its entry.
stopServerKeepsEntry(P, n, outcome) ==
    LET child == P.run[n]
        Q == [P EXCEPT !.kids = released(@, n)]
    IN  IF child # 0 /\ ~Q.kids[child].killed
        THEN [run |-> Q.run,
              kids |-> [p \in 1..Len(Q.kids) |->
                          IF p = child THEN signalled(Q.kids[p], outcome)
                          ELSE Q.kids[p]]]
        ELSE Q

\* ProcessManager.stopServer: a tracked child whose handle is not killed is
\* signalled and its entry deleted, whatever the kill does.
stopServer(P, n, outcome) ==
    LET child == P.run[n]
        Q == [P EXCEPT !.kids = released(@, n)]
    IN  IF child # 0 /\ ~Q.kids[child].killed
        THEN [run |-> [Q.run EXCEPT ![n] = 0],
              kids |-> [p \in 1..Len(Q.kids) |->
                          IF p = child THEN signalled(Q.kids[p], outcome)
                          ELSE Q.kids[p]]]
        ELSE Q

\* What stopServer returns.
stopServerResult(P, n, outcome) ==
    IF P.run[n] # 0 /\ ~P.kids[P.run[n]].killed /\ outcome # "threw"
    THEN "true" ELSE "false"

\* startServer(n, config) is called: a tracked process is stopped first; spawn
\* gives a child, which is tracked, or throws.
StartServer(n) ==
    /\ Len(children) < MaxChildren
    /\ \E outcome \in KillOutcomes, spawned \in BOOLEAN :
         LET P == IF isRunning(Processes, n) THEN stopServer(Processes, n, outcome)
                  ELSE Processes
             child == Len(children) + 1
         IN  /\ children' = IF spawned THEN Append(P.kids, ChildProcess(n)) ELSE P.kids
             /\ runningProcesses' = IF spawned THEN [P.run EXCEPT ![n] = child]
                                    ELSE P.run
             /\ pmCall' = [op |-> "startServer", name |-> n,
                           replaced |-> runningProcesses[n],
                           spawned |-> IF spawned THEN child ELSE 0,
                           res |-> IF spawned THEN "ok" ELSE "ProcessError"]
    /\ UNCHANGED managerVars

\* stopServer(n) is called.
StopServer(n) ==
    /\ \E outcome \in KillOutcomes :
         LET P == stopServer(Processes, n, outcome)
         IN  /\ children' = P.kids
             /\ runningProcesses' = P.run
             /\ pmCall' = [op |-> "stopServer", name |-> n,
                           replaced |-> runningProcesses[n], spawned |-> 0,
                           res |-> stopServerResult(Processes, n, outcome)]
    /\ UNCHANGED managerVars

\* serverNames.forEach(serverName => this.stopServer(serverName))
RECURSIVE stopEach(_, _, _)
stopEach(P, ns, outcomes) ==
    IF ns = <<>> THEN P
    ELSE stopEach(stopServer(P, Head(ns), outcomes[Head(ns)]), Tail(ns), outcomes)

\* stopAllServers() is called.
StopAllServers ==
    /\ \E outcomes \in [Names -> KillOutcomes] :
         LET serverNames == inOrder({n \in Names : runningProcesses[n] # 0})
             P == stopEach(Processes, serverNames, outcomes)
         IN  /\ children' = P.kids
             /\ runningProcesses' = P.run
             /\ pmCall' = [NoCall EXCEPT !.op = "stopAllServers", !.res = "ok"]
    /\ UNCHANGED managerVars

\* The handler of a child's exit and error events: the entry of the name the
\* child was spawned for is deleted.
childGone(run, n) == [run EXCEPT ![n] = 0]

\* A child that exited or failed: no entry refers to its handle any more,
\* and nothing of it is kept but the name it was spawned for.
GoneChild(n, state) ==
    [name |-> n, state |-> state, killed |-> FALSE, signalled |-> FALSE,
     released |-> TRUE]

\* The exit event of a child.
ChildExit(p) ==
    /\ p \in 1..Len(children)
    /\ children[p].state = "alive"
    /\ children' = [children EXCEPT ![p] = GoneChild(children[p].name, "exited")]
    /\ runningProcesses' = childGone(runningProcesses, children[p].name)
    /\ pmCall' = [NoCall EXCEPT !.op = "exit", !.name = children[p].name,
                                !.replaced = runningProcesses[children[p].name]]
    /\ UNCHANGED managerVars

\* The error event of a child (it could not be spawned or signalled).
ChildError(p) ==
    /\ p \in 1..Len(children)
    /\ children[p].state = "alive"
    /\ children' = [children EXCEPT ![p] = GoneChild(children[p].name, "failed")]
    /\ runningProcesses' = childGone(runningProcesses, children[p].name)
    /\ pmCall' = [NoCall EXCEPT !.op = "error", !.name = children[p].name,
                                !.replaced = runningProcesses[children[p].name]]
    /\ UNCHANGED managerVars

\* ---------------------------------------------------------- specifications

\* The registry the manager is constructed over: any set of registered names.
Init ==
    /\ registry \in [Names -> BOOLEAN]
    /\ launch = [n \in Names |-> 1]
    /\ connections = [n \in Names |-> NoConn]
    /\ transports = <<>>
    /\ events = <<>>
    /\ lastEvent = [n \in Names |-> NoEvent]
    /\ schemaCache = [n \in Names |-> NoCache]
    /\ refetchDue = [n \in Names |-> FALSE]
    /\ tasks = [t \in Tasks |-> IdleTask]
    /\ nStarted = 0
    /\ wasConnected = [n \in Names |-> FALSE]
    /\ runningProcesses = [n \in Names |-> 0]
    /\ children = <<>>
    /\ pmCall = NoCall

\* The lifecycle: connect, disconnect and unregisterServer calls on two names.
NextConn ==
    \E t \in 1..MaxLifecycleCalls :
        \/ \E n \in Names : Connect(t, n)
        \/ Handshake(t)
        \/ ConnectGiveUp(t)
        \/ \E n \in Names : Disconnect(t, n)
        \/ DisconnectSettle(t)
        \/ \E n \in Names : Unregister(t, n)
        \/ UnregisterRegistry(t)
        \/ UnregisterDone(t)

SpecConn == Init /\ [][NextConn]_vars

\* The schema cache: listTools calls among connect and disconnect calls on one name.
NextSchema ==
    \E t \in 1..MaxSchemaCalls :
        \/ \E n \in OneName : Connect(t, n)
        \/ Handshake(t)
        \/ ConnectGiveUp(t)
        \/ \E n \in OneName : Disconnect(t, n)
        \/ DisconnectSettle(t)
        \/ \E n \in OneName : ListTools(t, n)
        \/ ListSettle(t)

SpecSchema == Init /\ [][NextSchema]_vars

\* Tool calls among connect and disconnect calls on one name.
NextTool ==
    \E t \in 1..MaxToolCalls :
        \/ \E n \in OneName : Connect(t, n)
        \/ Handshake(t)
        \/ ConnectGiveUp(t)
        \/ \E n \in OneName : Disconnect(t, n)
        \/ DisconnectSettle(t)
        \/ \E n \in OneName, callback \in BOOLEAN : CallTool(t, n, callback)
        \/ ToolSettle(t)

SpecTool == Init /\ [][NextTool]_vars

\* The calls that read the table (listTools, getToolSchema, invalidateCache,
\* callTool, getStatus, listConnectedServers) among connect and disconnect
\* calls on one name.
NextReaders ==
    \E t \in 1..MaxReaderCalls :
        \/ \E n \in OneName : Connect(t, n)
        \/ Handshake(t)
        \/ ConnectGiveUp(t)
        \/ \E n \in OneName : Disconnect(t, n)
        \/ DisconnectSettle(t)
        \/ \E n \in OneName : ListTools(t, n)
        \/ \E n \in OneName : GetToolSchema(t, n)
        \/ ListSettle(t)
        \/ \E n \in OneName : InvalidateCacheCall(t, n)
        \/ \E n \in OneName, callback \in BOOLEAN : CallTool(t, n, callback)
        \/ ToolSettle(t)
        \/ \E n \in OneName : GetStatusCall(t, n)
        \/ ListConnectedCall(t)

SpecReaders == Init /\ [][NextReaders]_vars

\* registerServer and updateServerConfig among connect calls on one name.
NextConfig ==
    \E t \in 1..MaxConfigCalls :
        \/ \E n \in OneName : Connect(t, n)
        \/ Handshake(t)
        \/ ConnectGiveUp(t)
        \/ DisconnectSettle(t)
        \/ \E n \in OneName, config \in Configs, autoConnect \in BOOLEAN :
              RegisterServer(t, n, config, autoConnect)
        \/ RegisterPersisted(t)
        \/ \E n \in OneName, config \in Configs, autoConnect \in BOOLEAN :
              UpdateServerConfig(t, n, config, autoConnect)
        \/ UpdatePersisted(t)
        \/ UpdateDisconnected(t)
        \/ BulkDone(t)

SpecConfig == Init /\ [][NextConfig]_vars

\* The ProcessManager: start, stop and stopAll calls and the events of the
\* children, on two names.
NextProcess ==
    \/ \E n \in Names : StartServer(n)
    \/ \E n \in Names : StopServer(n)
    \/ StopAllServers
    \/ \E p \in 1..MaxChildren : ChildExit(p)
    \/ \E p \in 1..MaxChildren : ChildError(p)

SpecProcess == Init /\ [][NextProcess]_vars

\* connectAll and the auto-connect of initialize on two names.
NextConnectAll ==
    \E t \in 1..MaxBulkCalls :
        \/ ConnectAllServers(t)
        \/ AutoConnect(t)
        \/ Handshake(t)
        \/ ConnectGiveUp(t)
        \/ BulkDone(t)

SpecConnectAll == Init /\ [][NextConnectAll]_vars

\* disconnectAll among connect calls on two names.
NextDisconnectAll ==
    \E t \in 1..MaxBulkCalls :
        \/ \E n \in Names : Connect(t, n)
        \/ Handshake(t)
        \/ ConnectGiveUp(t)
        \/ DisconnectAll(t)
        \/ DisconnectSettle(t)
        \/ BulkDone(t)

SpecDisconnectAll == Init /\ [][NextDisconnectAll]_vars

\* disconnectAll where its member calls are within the calls of a behaviour.
DisconnectAllWithin(t) ==
    /\ t + Cardinality(trackedNames(connections)) <= MaxLiveCalls
    /\ DisconnectAll(t)

\* connect, disconnect, disconnectAll, listTools and callTool on one name.
NextLive ==
    \E t \in 1..MaxLiveCalls :
        \/ \E n \in OneName : Connect(t, n)
        \/ Handshake(t)
        \/ ConnectGiveUp(t)
        \/ \E n \in OneName : Disconnect(t, n)
        \/ DisconnectSettle(t)
        \/ DisconnectAllWithin(t)
        \/ BulkDone(t)
        \/ \E n \in OneName : ListTools(t, n)
        \/ ListSettle(t)
        \/ \E n \in OneName, callback \in BOOLEAN : CallTool(t, n, callback)
        \/ ToolSettle(t)

\* Every transport operation eventually settles (the handshake, a close, a
\* discovery call, a tool call), and the event loop runs the continuation of a
\* Promise.all whose promises have all settled.
Settling ==
    \A t \in Tasks :
        /\ WF_vars(Handshake(t))
        /\ WF_vars(ConnectGiveUp(t))
        /\ WF_vars(DisconnectSettle(t))
        /\ WF_vars(ListSettle(t))
        /\ WF_vars(ToolSettle(t))
        /\ WF_vars(BulkDone(t))

SpecLive == Init /\ [][NextLive]_vars /\ Settling

\* ------------------------------------------------------------------ claims

\* The calls that are in tasks: issued, and settled no longer than one step ago.
Calls(op) == {t \in Tasks : tasks[t].op = op}

\* The calls that return in this state.
Returning(op) == {t \in Calls(op) : tasks[t].pc = "done"}

\* The events of the latest step that are about n.
EventsFor(n) == SelectSeq(events, LAMBDA e : e.name = n)

\* C1: whenever a connect(name) call completes without failure, at that moment
\* getStatus(name) is connected and name is in listConnected(), for every
\* connect call, also one issued while another call on the name is in flight.
C1_ConnectReturnsConnected ==
    \A t \in Returning("connect") :
        tasks[t].res = "ok" =>
            /\ getStatus(tasks[t].name) = "connected"
            /\ tasks[t].name \in listConnectedServers

\* C2 as stated: a connect(name) called while an earlier connect(name) is still
\* pending is a no-op: it returns at once, constructs no transport and emits
\* no event.
C2_PendingConnectMakesNoOp ==
    \A t \in Calls("connect") :
        tasks[t].pendingPeer =>
            /\ tasks[t].pc = "done"
            /\ tasks[t].res = "ok"
            /\ tasks[t].tr = 0
            /\ tasks[t].emitted = 0

\* C2 as amended: a connect(name) called while an earlier connect(name) is
\* pending and the record that connect stored is still in the table is a no-op:
\* it returns at once without failure, constructs no transport, emits no event
\* and leaves the status as it was; and a connected event is emitted only by
\* the return of a connect that constructed its own transport, once.
C2_LiveConnectMakesNoOp ==
    /\ \A t \in Calls("connect") :
         tasks[t].livePeer =>
            /\ tasks[t].pc = "done"
            /\ tasks[t].res = "ok"
            /\ tasks[t].tr = 0
            /\ tasks[t].emitted = 0
            /\ tasks[t].statusAtReturn = tasks[t].statusAtStart
            /\ events = <<>>
    /\ \A i \in 1..Len(events) :
         events[i].status = "connected" =>
            /\ Len(events) = 1
            /\ \E t \in Returning("connect") :
                 /\ tasks[t].name = events[i].name
                 /\ tasks[t].tr # 0
                 /\ ~tasks[t].livePeer

\* C2's case: a second connect returned while the first is at its handshake.
C2_Witness ==
    \E t \in Returning("connect"), u \in Calls("connect") :
        /\ tasks[t].livePeer
        /\ tasks[u].name = tasks[t].name
        /\ tasks[u].pc = "handshake"
        /\ Len(transports) = 1

\* C6: every status transition of a name emits exactly one
\* connectionStatusChanged event, which carries the new status ((absent) ->
\* connecting included; a record that is removed is announced as disconnected
\* or error).
C6_EveryTransitionEmitsOnce ==
    [][\A n \in Names :
          connections'[n].status # connections[n].status =>
             LET es == SelectSeq(events', LAMBDA e : e.name = n)
             IN  /\ Len(es) = 1
                 /\ IF connections'[n] = NoConn
                    THEN es[1].status \in {"disconnected", "error"}
                    ELSE es[1].status = connections'[n].status]_vars

\* C8: a name with no config in the registry has status disconnected, and a
\* connect on it fails with ServerNotFound, constructs no transport, leaves no
\* record in the table and reports the failure as an error event.
C8_UnregisteredNameNeverConnects ==
    /\ \A n \in Names : ~registry[n] => getStatus(n) = "disconnected"
    /\ \A t \in Returning("connect") :
         ~tasks[t].registeredAtStart =>
            /\ tasks[t].res = "ServerNotFoundError"
            /\ tasks[t].tr = 0
            /\ connections[tasks[t].name] = NoConn
            /\ events = <<[name |-> tasks[t].name, status |-> "error",
                           error |-> MkError("ServerNotFoundError", "config", t)]>>

\* C9: when a disconnect(name) call completes, name is absent from the table,
\* getStatus(name) is disconnected and name is not in listConnected(), whether
\* the close succeeded or failed.
C9_DisconnectLeavesNoRecord ==
    \A t \in Returning("disconnect") :
        /\ connections[tasks[t].name] = NoConn
        /\ getStatus(tasks[t].name) = "disconnected"
        /\ tasks[t].name \notin listConnectedServers

\* C9's case: a disconnect returns after the close of its transport failed.
C9_Witness ==
    \E t \in Returning("disconnect") :
        /\ tasks[t].tr # 0
        /\ transports[tasks[t].tr].open
        /\ events = <<[name |-> tasks[t].name, status |-> "error",
                       error |-> MkError("ConnectionError", "close", t)]>>

\* The events for n up to now that are known: the latest one before this
\* step's, then this step's.
RecentEventsFor(n) ==
    IF lastEvent[n] = NoEvent THEN EventsFor(n) ELSE <<lastEvent[n]>> \o EventsFor(n)

\* C14: in the sequence of connectionStatusChanged events of one name no two
\* consecutive events carry the same status and the same error reference.
C14_NoDuplicateEvents ==
    \A n \in Names :
        \A i \in 1..Len(RecentEventsFor(n)) :
            i > 1 =>
                ~ /\ RecentEventsFor(n)[i].status = RecentEventsFor(n)[i - 1].status
                  /\ RecentEventsFor(n)[i].error = RecentEventsFor(n)[i - 1].error

\* C15: at every suspension point every record in the table has status
\* connecting or connected, and getStatus(name) is connected only if a record
\* for name is in the table.
C15_StatusAgreesWithTable ==
    \A n \in Names :
        /\ connections[n] # NoConn => connections[n].status \in {"connecting", "connected"}
        /\ getStatus(n) = "connected" => connections[n] # NoConn
        /\ connections[n] = NoConn => getStatus(n) = "disconnected"

\* C15's case: a name is reported as error or disconnected and is absent from
\* the table while the other name is connected.
C15_Witness ==
    \E n \in Names, m \in Names :
        /\ n # m
        /\ connections[n] = NoConn
        /\ Len(EventsFor(n)) = 1
        /\ EventsFor(n)[1].status \in {"error", "disconnected"}
        /\ getStatus(m) = "connected"

\* The transports constructed for n that are not closed.
OpenTransports(n) ==
    {tr \in 1..Len(transports) : transports[tr].name = n /\ transports[tr].open}

\* C16: there are never two transports for one name that have both been
\* constructed and not yet closed.
C16_OneOpenTransportPerName ==
    \A n \in Names : Cardinality(OpenTransports(n)) <= 1

\* C19: when the handshake of connect(name) fails, the close of the attempt's
\* transport is attempted before the error event is emitted, the record is
\* removed, connect fails with a ConnectionError made from the cause,
\* getStatus(name) is then disconnected, and a connect(name) that comes next
\* starts a fresh attempt with a new transport.
C19_FailedHandshakeCleansUp ==
    /\ [](\A t \in Calls("connect") :
            /\ tasks[t].pc = "closing" =>
                  /\ tasks[t].emitted = 0
                  /\ \A i \in 1..Len(events) : events[i].error.by # t
            /\ (tasks[t].pc = "done" /\ tasks[t].res = "ConnectionError") =>
                  /\ tasks[t].closeTried
                  /\ events = <<[name |-> tasks[t].name, status |-> "error",
                                 error |-> MkError("ConnectionError", "handshake", t)]>>
                  /\ connections[tasks[t].name] = NoConn
                  /\ getStatus(tasks[t].name) = "disconnected")
    /\ [][\A t \in Tasks, n \in Names :
            (/\ tasks[t].op = "idle" /\ tasks'[t].op = "connect" /\ tasks'[t].name = n
             /\ EventBefore(n).error.why = "handshake"
             /\ connections[n] = NoConn
             /\ registry[n]) =>
                \/ tasks'[t].res = "ProcessError"
                \/ /\ tasks'[t].pc = "handshake"
                   /\ tasks'[t].tr = Len(transports) + 1
                   /\ Len(transports') = Len(transports) + 1
                   /\ connections'[n] = McpConnection(tasks'[t].tr)]_vars

\* C19's case: after a failed handshake a connect on the name is at its own
\* handshake over a second transport.
C19_Witness ==
    \E t \in Calls("connect") :
        /\ tasks[t].pc = "handshake"
        /\ tasks[t].tr = 2
        /\ lastEvent[tasks[t].name].error.why = "handshake"
        /\ connections[tasks[t].name].transport = 2
        /\ transports[1].name = tasks[t].name

\* C20: the status of a name changes only along (absent) -> connecting,
\* connecting -> connected, connecting/connected -> error or disconnected
\* (the record is then removed), and no event is emitted for a name that has
\* no record unless by a connect(name) that starts in that step.
C20_OnlyLifecycleEdges ==
    [][\A n \in Names :
          /\ connections'[n].status # connections[n].status =>
                /\ <<connections[n].status, connections'[n].status>> \in
                      {<<"none", "connecting">>, <<"connecting", "connected">>,
                       <<"connecting", "none">>, <<"connected", "none">>}
                /\ connections'[n] = NoConn =>
                      \E i \in 1..Len(events') :
                          /\ events'[i].name = n
                          /\ events'[i].status \in {"disconnected", "error"}
          /\ (\E i \in 1..Len(events') : events'[i].name = n) =>
                \/ connections[n] # NoConn
                \/ \E t \in Tasks : /\ tasks[t].op = "idle"
                                     /\ tasks'[t].op = "connect"
                                     /\ tasks'[t].name = n]_vars

\* The bulk calls that wait for their member calls or return in this state.
Bulks(bulk) == {t \in Tasks : tasks[t].op = bulk /\ tasks[t].pc \in {"gathering", "done"}}

\* The member calls of the bulk call t that have not settled.
PendingMembers(t) ==
    {u \in Tasks : tasks[u].parent = t /\ tasks[u].pc \notin {"done", "gone"}}

\* C17 as stated: disconnectAll starts a disconnect for every name tracked
\* when it is called, never fails, returns only when every one of them has
\* settled, and when it returns none of those names is in the table.
C17_DisconnectAllLeavesNoName ==
    \A t \in Bulks("disconnectAll") :
        /\ tasks[t].members = tasks[t].wanted
        /\ \A u \in Tasks : (u > t /\ u <= t + Cardinality(tasks[t].wanted)) =>
                                tasks[u].op \in {"disconnect", "gone"}
        /\ tasks[t].pc = "done" =>
              /\ tasks[t].res = "ok"
              /\ PendingMembers(t) = {}
              /\ \A n \in tasks[t].wanted : connections[n] = NoConn

\* C17 as amended: ... and when it returns none of the records that were in
\* the table when it was called is in the table, whether their closes
\* succeeded or failed (a name is in the table again only by a connect that
\* started after its record was removed).
C17_DisconnectAllLeavesNoRecord ==
    \A t \in Bulks("disconnectAll") :
        /\ tasks[t].members = tasks[t].wanted
        /\ \A u \in Tasks : (u > t /\ u <= t + Cardinality(tasks[t].wanted)) =>
                                tasks[u].op \in {"disconnect", "gone"}
        /\ tasks[t].pc = "done" =>
              /\ tasks[t].res = "ok"
              /\ PendingMembers(t) = {}
              /\ \A n \in tasks[t].wanted :
                    connections[n].transport \notin tasks[t].records

\* C17's case: disconnectAll returns for two names, the close of one having
\* failed and the close of the other having succeeded.
C17_Witness ==
    \E t \in Bulks("disconnectAll") :
        /\ tasks[t].pc = "done"
        /\ tasks[t].wanted = Names
        /\ \E a \in tasks[t].records, b \in tasks[t].records :
              transports[a].open /\ ~transports[b].open
        /\ \A n \in Names : connections[n] = NoConn

\* The connectAll and auto-connect calls that wait or return in this state.
ConnectBulks == Bulks("connectAll") \cup Bulks("autoConnect")

\* C18: connectAll and the auto-connect start the connect of every selected
\* server in one block; a member's failure changes neither another member's
\* call nor another server's record; the bulk call never fails and returns
\* only when every member call has settled.
C18_ConnectAllIsolatesFailures ==
    /\ [](\A t \in ConnectBulks :
            /\ tasks[t].members = tasks[t].wanted
            /\ \A u \in Tasks : (u > t /\ u <= t + Cardinality(tasks[t].wanted)) =>
                                    tasks[u].op \in {"connect", "gone"}
            /\ tasks[t].pc = "done" =>
                  /\ tasks[t].res = "ok"
                  /\ PendingMembers(t) = {})
    /\ [][\A u \in Tasks :
            (/\ tasks[u].op = "connect" /\ tasks[u].parent # 0
             /\ tasks'[u].pc = "done" /\ tasks'[u].res # "ok") =>
                /\ \A m \in Names \ {tasks[u].name} : connections'[m] = connections[m]
                /\ \A v \in Tasks \ {u} :
                      tasks[v].pc \notin {"idle", "done", "gone"} => tasks'[v] = tasks[v]]_vars

\* C18's case: connectAll returns for two servers, one connected and the
\* other not, its attempt having failed at the handshake.
C18_Witness ==
    \E t \in Bulks("connectAll") :
        /\ tasks[t].pc = "done"
        /\ tasks[t].wanted = Names
        /\ \E n \in Names, m \in Names :
              /\ getStatus(n) = "connected"
              /\ getStatus(m) = "disconnected"
              /\ lastEvent[m].error.why = "handshake"

\* C3: a listTools(name) issued on a connected server never returns a mapping
\* that was fetched over an earlier connection of that name.
C3_NoStaleSchemas ==
    \A t \in Returning("listTools") :
        (tasks[t].res = "ok" /\ tasks[t].clientAtStart # 0) =>
            tasks[t].via = tasks[t].clientAtStart

\* C11: after a connectionStatusChanged event for name with status error or
\* disconnected, the next listTools(name) that runs while the server is
\* connected again issues a discovery call.
C11_ListToolsRefetchesAfterLoss ==
    \A t \in Calls("listTools") :
        (tasks[t].dueAtStart /\ tasks[t].clientAtStart # 0) => tasks[t].fetched

\* C10: a listTools(name) on a connected server that follows a listTools(name)
\* which returned a mapping, with nothing having removed the cache entry in
\* between, returns the same mapping and issues no discovery call.
C10_SecondListToolsHitsCache ==
    \A t \in Calls("listTools") :
        (tasks[t].statusAtStart = "connected" /\ tasks[t].cachedAtStart.present) =>
            /\ tasks[t].pc = "done"
            /\ tasks[t].res = "ok"
            /\ ~tasks[t].fetched
            /\ tasks[t].tools = tasks[t].cachedAtStart.last

\* C10's case: the second call returns a mapping of two tools from the cache.
C10_Witness ==
    \E t \in Returning("listTools") :
        /\ tasks[t].statusAtStart = "connected"
        /\ tasks[t].cachedAtStart.present
        /\ ~tasks[t].fetched
        /\ Len(tasks[t].tools) = 2

\* C4: of the updates delivered to the callback of one callTool, at most one
\* has isFinal = true and it is the last one.
C4_FinalUpdateIsLastAndOnly ==
    \A t \in Calls("callTool") :
        \A i \in 1..Len(tasks[t].updates) :
            tasks[t].updates[i].isFinal => i = Len(tasks[t].updates)

\* C5: a callTool with a callback that is forwarded to the client delivers
\* tool_start before the invoke, and once settled exactly one more update:
\* tool_end (final, the result) on success or error (final, the message) on
\* failure.
C5_StartThenOneFinalUpdate ==
    \A t \in Calls("callTool") :
        (tasks[t].callback /\ tasks[t].invoked) =>
            LET u == tasks[t].updates
                start == [type |-> "tool_start", isFinal |-> FALSE, content |-> "call"]
                end == [type |-> "tool_end", isFinal |-> TRUE, content |-> "result"]
                error == [type |-> "error", isFinal |-> TRUE, content |-> "message"]
            IN  /\ tasks[t].pc = "invoking" => u = <<start>>
                /\ tasks[t].pc = "done" =>
                      u = IF tasks[t].res = "ok" THEN <<start, end>> ELSE <<start, error>>

\* C12: when the response has isError = true, callTool returns no result: it
\* fails with a ToolCallError that carries the server's error payload (the
\* JSON of the content sent), and with a callback the normalized result, with
\* success = false and isError = true, is delivered in a tool_end update.
C12_ErrorEnvelopeFails ==
    \A t \in Returning("callTool") :
        tasks[t].result.isError = "true" =>
            /\ tasks[t].res = "ToolCallError"
            /\ tasks[t].thrown.kind = "ToolCallError"
            /\ tasks[t].thrown.serverName = tasks[t].name
            /\ tasks[t].result.content # "undefined" =>
                  /\ tasks[t].thrown.originalError = stringify(tasks[t].result.content)
                  /\ tasks[t].thrown.message = stringify(tasks[t].result.content)
            /\ tasks[t].result.success = FALSE
            /\ tasks[t].callback =>
                  \E i \in 1..Len(tasks[t].updates) :
                      tasks[t].updates[i] =
                          [type |-> "tool_end", isFinal |-> TRUE, content |-> "result"]

\* C12's case: a call with a callback fails on an envelope with isError = true
\* that has content.
C12_Witness ==
    \E t \in Returning("callTool") :
        /\ tasks[t].result.isError = "true"
        /\ tasks[t].result.content = "text"
        /\ tasks[t].callback
        /\ tasks[t].thrown.originalError = "json of text"

\* C13: when client.callTool rejects, callTool fails with a ToolCallError; for
\* a cause that is not a ToolCallError it carries the cause, the server name
\* and the tool name, a cause that is a ToolCallError is thrown as it is; with
\* a callback the last update is an error update with isFinal = true.
C13_RejectionIsWrappedOnce ==
    \A t \in Returning("callTool") :
        (tasks[t].invoked /\ tasks[t].result = NoResult) =>
            /\ tasks[t].res = "ToolCallError"
            /\ tasks[t].thrown.kind = "ToolCallError"
            /\ IF tasks[t].cause.kind = "ToolCallError"
               THEN tasks[t].thrown = tasks[t].cause
               ELSE /\ tasks[t].thrown.originalError = tasks[t].cause.message
                    /\ tasks[t].thrown.serverName = tasks[t].name
                    /\ tasks[t].thrown.toolName = ToolName
            /\ tasks[t].callback =>
                  /\ tasks[t].updates # <<>>
                  /\ tasks[t].updates[Len(tasks[t].updates)] =
                        [type |-> "error", isFinal |-> TRUE, content |-> "message"]

\* C13's case: a rejection with an error that is a ToolCallError already has
\* been thrown on, to a caller with a callback.
C13_Witness ==
    \E t \in Returning("callTool") :
        /\ tasks[t].invoked
        /\ tasks[t].result = NoResult
        /\ tasks[t].cause.kind = "ToolCallError"
        /\ tasks[t].thrown = tasks[t].cause
        /\ tasks[t].callback

C21_DisconnectWithoutRecordIsNoOp ==
    [][\A t \in Tasks :
          (/\ tasks[t].op = "idle"
           /\ tasks'[t].op = "disconnect"
           /\ connections[tasks'[t].name] = NoConn) =>
              /\ tasks'[t].pc = "done"
              /\ tasks'[t].res = "ok"
              /\ tasks'[t].tr = 0
              /\ events' = <<>>
              /\ transports' = transports
              /\ connections' = connections
              /\ \A n \in Names :
                    getStatus(n)' = getStatus(n)]_vars

\* C21's case: a disconnect on a name with no record has returned while the
\* other name has a record and a transport that is open.
C21_Witness ==
    \E t \in Returning("disconnect") :
        /\ tasks[t].statusAtStart = "disconnected"
        /\ tasks[t].emitted = 0
        /\ tasks[t].tr = 0
        /\ \E n \in Names \ {tasks[t].name} :
              /\ connections[n] # NoConn
              /\ transports[connections[n].transport].open

\* C22: a disconnect on a name whose record is connecting or connected emits
\* exactly one connectionStatusChanged event for the name, disconnected when
\* the close succeeded and error (carrying the close failure) when the close
\* failed, and returns normally in both cases.
C22_DisconnectEmitsOneEvent ==
    \A t \in Returning("disconnect") :
        tasks[t].statusAtStart \in {"connecting", "connected"} =>
           /\ tasks[t].res = "ok"
           /\ tasks[t].closeTried
           /\ tasks[t].emitted = 1
           /\ events = <<[name   |-> tasks[t].name,
                          status |-> IF tasks[t].closeFailed THEN "error"
                                     ELSE "disconnected",
                          error  |-> IF tasks[t].closeFailed
                                     THEN MkError("ConnectionError", "close", t)
                                     ELSE NoError]>>

\* C22's case: a disconnect on a connected name has returned after its close
\* failed.
C22_Witness ==
    \E t \in Returning("disconnect") :
        /\ tasks[t].statusAtStart = "connected"
        /\ tasks[t].closeFailed
        /\ tasks[t].res = "ok"
        /\ transports[tasks[t].tr].open

\* The calls that only read the connection table.
ReaderOps ==
    {"listTools", "getToolSchema", "invalidateCache", "callTool", "getStatus",
     "listConnectedServers"}

\* C23: the connection table has a single writer: no step of a callTool,
\* listTools, getToolSchema, invalidateCache, getStatus or listConnectedServers
\* call, whether it is the call being issued or its request settling, and
\* whatever its outcome, adds, removes or changes a record, emits a
\* connectionStatusChanged event or touches a transport.
C23_ReadersLeaveTheTable ==
    [][\A t \in Tasks :
          (\/ tasks[t].op = "idle" /\ tasks'[t].op \in ReaderOps
           \/ /\ tasks[t].op \in ReaderOps
              /\ tasks[t].pc \in {"listing", "invoking"}
              /\ tasks'[t].pc = "done") =>
             /\ connections' = connections
             /\ events' = <<>>
             /\ transports' = transports]_vars

\* C23's case: a tool call that was invoked has failed, and the record of its
\* server is connected as before; no event came with the failure.
C23_Witness ==
    \E t \in Returning("callTool") :
        /\ tasks[t].invoked
        /\ tasks[t].res = "ToolCallError"
        /\ connections[tasks[t].name].status = "connected"
        /\ connections[tasks[t].name].transport = tasks[t].tr
        /\ events = <<>>

\* The calls C24 is about.
LiveOps == {"connect", "disconnect", "disconnectAll", "listTools", "callTool"}

\* No call is pending and no name is connecting.
Quiet ==
    /\ \A t \in Tasks : tasks[t].pc \in {"idle", "done", "gone"}
    /\ \A n \in Names : connections[n].status # "connecting"

\* C24: provided every transport operation eventually settles, every connect,
\* disconnect, disconnectAll, listTools and callTool call eventually completes,
\* with success or with a reported failure, and no name stays connecting
\* forever.  A behaviour has finitely many calls and a call that has completed
\* stays completed, so this is: from some point on no call is pending and no
\* name is connecting; and a call that completes has an outcome.
C24_EveryCallCompletes ==
    /\ <>[]Quiet
    /\ [](\A t \in Tasks :
             (tasks[t].op \in LiveOps /\ tasks[t].pc = "done") =>
                 tasks[t].res # "none")

\* C24's case: a disconnectAll has completed after the close of its member
\* failed, and the name is not connecting.
C24_Witness ==
    \E t \in Returning("disconnectAll") :
        /\ tasks[t].members # {}
        /\ \E tr \in tasks[t].records : transports[tr].open
        /\ \A n \in Names : connections[n].status # "connecting"

\* C25: callTool and listTools report ServerNotFound only for a name that is
\* unknown to the registry or was never connected; for a registered name that
\* was connected earlier and has no usable connection now, the failure of the
\* connection precondition is NotConnected (ConnectionError).
C25_ServerNotFoundOnlyIfNeverConnected ==
    \A t \in Returning("callTool") \cup Returning("listTools") :
        /\ tasks[t].res = "ServerNotFoundError" =>
              (~tasks[t].registeredAtStart \/ ~wasConnected[tasks[t].name])
        /\ (/\ tasks[t].registeredAtStart
            /\ wasConnected[tasks[t].name]
            /\ tasks[t].res # "ok"
            /\ ~tasks[t].invoked
            /\ ~tasks[t].fetched) => tasks[t].res = "ConnectionError"

\* C26: a callTool with a callback that fails its connection precondition (no
\* client for the name) still delivers tool_start and then exactly one final
\* update, an error update.
C26_PreconditionFailureIsStreamed ==
    \A t \in Returning("callTool") :
        (tasks[t].callback /\ tasks[t].clientAtStart = 0) =>
            /\ Len(tasks[t].updates) = 2
            /\ tasks[t].updates[1].type = "tool_start"
            /\ ~tasks[t].updates[1].isFinal
            /\ tasks[t].updates[2].type = "error"
            /\ tasks[t].updates[2].isFinal

C28_SuccessIsNotIsError ==
    \A t \in Returning("callTool") :
        /\ tasks[t].result # NoResult =>
              tasks[t].result.success = (tasks[t].result.isError # "true")
        /\ tasks[t].toolCallEnd.success = (tasks[t].toolCallEnd.isError # "true")
        /\ tasks[t].res = "ok" =>
              /\ tasks[t].result # NoResult
              /\ tasks[t].toolCallEnd = tasks[t].result

\* C28's case: a tool call has returned a result built from a response with no
\* isError, and toolCallEnd carries that result.
C28_Witness ==
    \E t \in Returning("callTool") :
        /\ tasks[t].res = "ok"
        /\ tasks[t].result.isError = "undefined"
        /\ tasks[t].result.success
        /\ tasks[t].toolCallEnd = tasks[t].result

\* C29: when the construction of the transport fails (a connect on a
\* registered name with no record starts its attempt and no transport comes
\* to exist), connect fails at once with a ProcessError that carries the
\* cause, exactly one error event for the name is emitted, no handshake is
\* attempted and no record is added to the table.
C29_ConstructionFailure ==
    [][\A t \in Tasks :
          (/\ tasks[t].op = "idle"
           /\ tasks'[t].op = "connect"
           /\ registry[tasks'[t].name]
           /\ connections[tasks'[t].name] = NoConn
           /\ transports' = transports) =>
              /\ tasks'[t].pc = "done"
              /\ tasks'[t].res = "ProcessError"
              /\ tasks'[t].tr = 0
              /\ tasks'[t].emitted = 1
              /\ events' = <<[name |-> tasks'[t].name, status |-> "error",
                              error |-> MkError("ProcessError", "spawn", t)]>>
              /\ connections' = connections]_vars

\* C29's case: a connect has failed with a ProcessError while a transport of
\* an earlier attempt on the name is still open.
C29_Witness ==
    \E t \in Returning("connect") :
        /\ tasks[t].res = "ProcessError"
        /\ tasks[t].registeredAtStart
        /\ connections[tasks[t].name] = NoConn
        /\ \E tr \in 1..Len(transports) :
              transports[tr].name = tasks[t].name /\ transports[tr].open

\* C30: under any interleaving of connect and disconnect calls, every
\* transport that was constructed and is not closed is the transport of the
\* record stored for its name: no transport stays open without a record.
C30_OpenTransportHasItsRecord ==
    \A tr \in 1..Len(transports) :
        transports[tr].open =>
            connections[transports[tr].name].transport = tr

\* C31: a record becomes connected only when the handshake performed on that
\* record's own transport completes successfully; and when the handshake (or
\* the close after a failed handshake) of an earlier connect attempt settles
\* while the table holds the record of a later attempt, that record is neither
\* changed nor removed.
C31_OnlyItsOwnHandshakeConnects ==
    [][\A n \in Names :
          /\ (connections'[n].status = "connected"
                /\ connections[n].status # "connected") =>
                \E t \in Tasks :
                    /\ tasks[t].pc = "handshake"
                    /\ tasks'[t].pc = "done"
                    /\ tasks'[t].res = "ok"
                    /\ tasks[t].tr = connections'[n].transport
          /\ \A t \in Tasks :
                (/\ tasks[t].op = "connect"
                 /\ tasks[t].name = n
                 /\ tasks[t].pc \in {"handshake", "closing"}
                 /\ tasks'[t].pc # tasks[t].pc
                 /\ connections[n] # NoConn
                 /\ connections[n].transport # tasks[t].tr) =>
                    connections'[n] = connections[n]]_vars

\* C32: whenever the schema cache holds an entry for a name, the name has
\* status connected: no entry exists for a name that is absent, connecting or
\* disconnected, under any interleaving of listTools with connect and
\* disconnect.
C32_CachedNamesAreConnected ==
    \A n \in Names : cacheHas(schemaCache, n) => getStatus(n) = "connected"

\* C33: every callTool of the facade emits exactly one toolCallStart and then
\* exactly one toolCallEnd, for every outcome (result returned, precondition
\* failure, remote isError, rejected invoke): toolCallStart alone while the
\* call is pending, both once it has completed; on failure the result of
\* toolCallEnd has success = false and isError = true, and the failure of the
\* invoker is thrown on to the caller as it is.
C33_OneStartThenOneEnd ==
    \A t \in Calls("callTool") :
        IF tasks[t].pc # "done"
        THEN tasks[t].toolEvents = <<"toolCallStart">>
        ELSE /\ tasks[t].toolEvents = <<"toolCallStart", "toolCallEnd">>
             /\ tasks[t].res # "ok" =>
                   /\ ~tasks[t].toolCallEnd.success
                   /\ tasks[t].toolCallEnd.isError = "true"
                   /\ tasks[t].res = IF tasks[t].invoked THEN "ToolCallError"
                                     ELSE callToolNoClient(tasks[t].statusAtStart)
                   /\ tasks[t].invoked =>
                         tasks[t].thrown = rethrown(tasks[t].name, tasks[t].cause)

\* C33's case: a call that was invoked has failed on a result with isError,
\* after toolCallStart and toolCallEnd.
C33_Witness ==
    \E t \in Returning("callTool") :
        /\ tasks[t].invoked
        /\ tasks[t].result.isError = "true"
        /\ tasks[t].res = "ToolCallError"
        /\ tasks[t].toolEvents = <<"toolCallStart", "toolCallEnd">>
        /\ tasks[t].toolCallEnd = errorResult("message")

\* C34: for every callTool of the facade that is forwarded to the protocol
\* client, the subscribers of toolCallUpdate observe the tool_start update and
\* the final update of the call, whether or not the caller gave a callback.
C34_SubscribersSeeStartAndFinal ==
    \A t \in Returning("callTool") :
        tasks[t].invoked =>
            LET seen == toolCallUpdates(tasks[t])
            IN  /\ Len(seen) >= 2
                /\ seen[1].type = "tool_start"
                /\ seen[Len(seen)].isFinal

\* The calls that replace a config.
ConfigOps == {"registerServer", "updateServerConfig"}

\* C35: once registerServer and updateServerConfig have completed (none is
\* pending), the config held by the record of every connected server is the
\* registry's config for the name: a connected server is never left on a
\* worker launched with the parameters that were replaced.
C35_ConnectedWithCurrentConfig ==
    (\A t \in Tasks :
        tasks[t].op \in ConfigOps => tasks[t].pc = "done") =>
       \A n \in Names :
          connections[n].status = "connected" => recordConfig(n) = launch[n]

\* C36: unregisterServer(name) disconnects the server before it removes the
\* config: when it completes successfully the name is neither in the registry
\* nor in the connection table; and in every quiescent state (no call is
\* pending) every name in the connection table has a config in the registry.
C36_UnregisterLeavesNoConnection ==
    /\ \A t \in Returning("unregister") :
          tasks[t].res = "ok" =>
             /\ ~registry[tasks[t].name]
             /\ connections[tasks[t].name] = NoConn
    /\ (\A t \in Tasks : tasks[t].pc \in {"idle", "done", "gone"}) =>
          \A n \in Names : connections[n] # NoConn => registry[n]

\* C37: when the discovery response lists several tools with the same name, the
\* mapping listTools caches and returns has exactly one entry for the name, and
\* the entry holds the definition of the last descriptor of that name in the
\* response.
C37_LastDuplicateWins ==
    \A t \in Returning("listTools") :
        (tasks[t].fetched /\ tasks[t].res = "ok") =>
            LET response == tasks[t].response
                tools == tasks[t].tools
            IN  /\ schemaCache[tasks[t].name].tools = tools
                /\ \A i \in 1..Len(response) :
                      LET last == CHOOSE j \in i..Len(response) :
                                     /\ response[j].name = response[i].name
                                     /\ \A k \in (j + 1)..Len(response) :
                                           response[k].name # response[i].name
                      IN  /\ Cardinality({k \in 1..Len(tools) :
                                            tools[k].name = response[i].name}) = 1
                          /\ mapGet(tools, response[i].name) = response[last].def

\* C37's case: a listTools has returned the mapping of a response that lists
\* the tool t1 twice, with different definitions.
C37_Witness ==
    \E t \in Returning("listTools") :
        /\ tasks[t].fetched
        /\ tasks[t].res = "ok"
        /\ \E i, j \in 1..Len(tasks[t].response) :
              /\ i < j
              /\ tasks[t].response[i].name = tasks[t].response[j].name
              /\ tasks[t].response[i].def # tasks[t].response[j].def
        /\ mapGet(tasks[t].tools, "t1") = 2

\* C38: after startServer(name) has returned a child, also when it replaced a
\* tracked process, isRunning(name) holds and getProcess(name) is that child
\* until the child exits or errors or stopServer(name) is called: the exit or
\* error event of a process stopped earlier never removes the entry of its
\* replacement.
C38_ReplacementStaysTracked ==
    \A p \in 1..Len(children) :
        (children[p].state = "alive" /\ ~children[p].released) =>
            /\ isRunning(Processes, children[p].name)
            /\ getProcess(Processes, children[p].name) = p

\* C39: startServer(name) on a name with a tracked process signals that
\* process and removes its entry before it spawns the replacement (the entry
\* is the replacement's, or none when the spawn failed), a name tracks at most
\* one process, which was spawned for it, and after stopAllServers no name is
\* tracked.
C39_ReplaceStopsTheOldProcess ==
    /\ (pmCall.op = "startServer" /\ pmCall.replaced # 0) =>
          /\ children[pmCall.replaced].signalled
          /\ runningProcesses[pmCall.name] = pmCall.spawned
    /\ \A n \in Names :
          runningProcesses[n] # 0 => children[runningProcesses[n]].name = n
    /\ pmCall.op = "stopAllServers" =>
          \A n \in Names : runningProcesses[n] = 0

\* C39's case: a startServer has replaced a tracked process that is still
\* alive, while the other name is tracked as well.
C39_Witness ==
    /\ pmCall.op = "startServer"
    /\ pmCall.replaced # 0
    /\ pmCall.spawned # 0
    /\ children[pmCall.replaced].state = "alive"
    /\ \E n \in Names \ {pmCall.name} : runningProcesses[n] # 0

====
